---- MODULE Spec2Model ----
(***************************************************************************)
(* A model of Phonopy-Importer/PhonopyImporter/Common.py                   *)
(* (_CheckStructure, WritePOSCAR, BuildForceConstants), of ReadPhonon in   *)
(* Phonopy-Importer/PhonopyImporter/CASTEP.py and of ReadForcesFC3 in      *)
(* Phono3pyPowerTools/Phono3pyIO.py.                                       *)
(*                                                                         *)
(* Spec: a behaviour is one call, of WritePOSCAR, taken as a single step,  *)
(* or of BuildForceConstants, followed statement group by statement group  *)
(* (pc).  The arguments of the call are fixed when the call is made and    *)
(* never change; the model draws each argument at the statement that       *)
(* reads it first, which gives the same behaviours as drawing them all at  *)
(* entry, without enumerating arguments that a failed call never looks     *)
(* at.  Until then an argument holds NotRead.                              *)
(*                                                                         *)
(* SpecReadPhonon and SpecReadForcesFC3: a behaviour is one call of the    *)
(* reader, the file being drawn block by block or line by line as the      *)
(* reader gets to it.                                                      *)
(*                                                                         *)
(* Numbers.  Fractional coordinates are integers in units of 1e-6, so the  *)
(* comparison tolerance 1.0e-5 is 10.  The Phonopy unit factors are        *)
(* integers in units of 1e-6 and a converted frequency is the exact        *)
(* quotient, kept as a fraction in lowest terms.                           *)
(*                                                                         *)
(* Phonopy itself (PhonopyAtoms, Phonopy, DynmatToForceConstants,          *)
(* write_FORCE_CONSTANTS) is an external library: the model records which  *)
(* of its entry points were called with what, and takes the list returned  *)
(* by get_commensurate_points() as an arbitrary duplicate-free list.       *)
(***************************************************************************)
EXTENDS Integers, Sequences, FiniteSets, TLC

VARIABLES
    pc,                 \* position in BuildForceConstants
    err,                \* the exception that ended the call, or NoErr
    warnings,           \* warnings.warn() calls so far, in order
    lattice_vectors, atom_types, atom_pos, atom_mass,   \* structure arguments
    q_pts, freqs, eigs, sc_dim, freq_units,             \* dataset arguments
    file_path,          \* output path argument
    structure_name,     \* WritePOSCAR: structure name argument ("" = None)
    freq_conv_factor,   \* local: selected unit factor (0 = None)
    sc_matrix,          \* local: supercell matrix handed to Phonopy()
    engine,             \* calls made on the Phonopy objects, in order
    commensurate_points,\* local: dynmat_to_fc.get_commensurate_points()
    cp_next,            \* matching loop: index of the next commensurate point
    map_indices,        \* local: the index mapping built so far
    freq_sets, eig_sets,\* local: arrays arranged for set_dynamical_matrices
    files               \* files written: their paths and contents

\* ReadPhonon, CASTEP.py:22-185
VARIABLES
    rp_pc,              \* position in ReadPhonon
    rp_err,             \* the exception that ended ReadPhonon, or NoErr
    phonon_file,        \* the .phonon file: its wavevector blocks read so far
    params,             \* local: num_atoms, num_bands, num_qpts of the header
    qpt_i,              \* local: passes of the loop of line 103 done
    qpt_locals,         \* locals q, w, freqs, ir_ints, eigenvectors, once bound
    q_point_data        \* local, and the third item returned

\* ReadForcesFC3, Phono3pyIO.py:41-127
VARIABLES
    fc3_pc,             \* position in ReadForcesFC3
    fc3_err,            \* the exception that ended ReadForcesFC3, or NoErr
    fc3_lines,          \* the FORCES_FC3 file: its lines read so far
    force_sets,         \* local, and the list returned
    disps, force_set    \* locals: the set being read

phononVars == <<rp_pc, rp_err, phonon_file, params, qpt_i, qpt_locals, q_point_data>>
fc3Vars == <<fc3_pc, fc3_err, fc3_lines, force_sets, disps, force_set>>
readerVars == <<phononVars, fc3Vars>>

callVars == <<pc, err, warnings, lattice_vectors, atom_types, atom_pos, atom_mass,
              q_pts, freqs, eigs, sc_dim, freq_units, file_path, freq_conv_factor,
              sc_matrix, engine, commensurate_points, cp_next, map_indices,
              freq_sets, eig_sets, files, structure_name>>

vars == <<callVars, readerVars>>

-----------------------------------------------------------------------------
(* Bounds of the model. *)

\* largest number of atoms in a structure argument
MaxAtoms == 2
\* largest number of entries in q_pts
MaxQ == 2
\* largest number of commensurate points the engine returns
MaxComm == 3

-----------------------------------------------------------------------------
(* Program constants. *)

\* Common.py:34, 1.0e-5 in units of 1e-6
_SymPrec == 10
\* phonopy.units.VaspToTHz = 15.633302, in units of 1e-6
VaspToTHz == 15633302
\* phonopy.units.VaspToCm = 521.47083, in units of 1e-6
VaspToCm == 521470830
\* one unit of the frequency factors' scale (1e6 units = 1.0)
FactorScale == 1000000
\* Common.py:68, 1.0 in units of 1e-6
PosLimit == 1000000
\* Common.py:270, "{0: >6.3f}": three decimals = a step of 1000 units of 1e-6
FmtStep == 1000

-----------------------------------------------------------------------------
(* Values. *)

\* an argument passed as None
NoneArg == [none |-> TRUE, shape |-> <<>>, data |-> <<>>]
\* an argument the call has not looked at yet
NotRead == [none |-> FALSE, shape |-> <<>>, data |-> <<>>]
\* an array-like argument: np.shape() of it, and its entries
Arr(shape, data) == [none |-> FALSE, shape |-> shape, data |-> data]

\* a list that is None, and a list
NoneList == [none |-> TRUE, items |-> <<>>]
List(items) == [none |-> FALSE, items |-> items]

\* CASTEP.py:35, 46: params before the header is read
NoParams == [num_atoms |-> 0, num_bands |-> 0, num_qpts |-> 0]

NoErr == [type |-> "none", line |-> 0, args |-> <<>>]
Raise(type, line, args) == [type |-> type, line |-> line, args |-> args]

Abs(x) == IF x < 0 THEN -x ELSE x

\* the comparison with <= for <
Close_Inclusive(a, b) == Abs(a - b) <= _SymPrec

\* math.fabs(a - b) < _SymPrec on one axis
Close(a, b) == Abs(a - b) < _SymPrec

-----------------------------------------------------------------------------
(* _CheckStructure, Common.py:41-74. *)

\* Common.py:46-47, "for param in ...: assert param is not None"
AnyNone(args) == \E i \in 1..Len(args) : args[i].none

\* Common.py:51 (and 61, 190, 199, 203, 207): unpacking np.shape() into
\* n names raises ValueError unless the array has n dimensions
Unpacks(a, n) == Len(a.shape) = n

\* the "== 3" of the chain left out
LatticeShapeOK_SquareOnly(lv) == lv.shape[1] = lv.shape[2]

\* Common.py:53, "assert dim_1 == dim_2 == 3"
LatticeShapeOK(lv) == lv.shape[1] = lv.shape[2] /\ lv.shape[2] = 3

\* Common.py:57, "assert len(atom_types) > 0"
HasAtoms(at) == at.shape[1] > 0

\* Common.py:63, "assert dim_1 == len(atom_types) and dim_2 == 3"
PosShapeOK(ap, at) == ap.shape[1] = at.shape[1] /\ ap.shape[2] = 3

\* the test without np.abs
NotFractional_NoAbs(ap) ==
    \E i \in 1..ap.shape[1] : \E j \in 1..ap.shape[2] : ap.data[i][j] > PosLimit

\* Common.py:68, "(np.abs(atom_pos) > 1.0).any()"
NotFractional(ap) ==
    \E i \in 1..ap.shape[1] : \E j \in 1..ap.shape[2] :
        Abs(ap.data[i][j]) > PosLimit

\* Common.py:73-74, "if atom_mass is not None: assert len(atom_mass) == len(atom_types)"
MassOK(am, at) == am.none \/ am.shape[1] = at.shape[1]

WarnFractional == "Functions in the Common module assume atom positions are in fractional coordinates."

\* The outcome of _CheckStructure: the exception it raises (or NoErr) and the
\* warnings it has issued by then.
_CheckStructure(lv, at, ap, am) ==
    IF AnyNone(<<lv, at, ap>>)
        THEN [err |-> Raise("AssertionError", 47, <<>>), warns |-> <<>>]
    ELSE IF ~Unpacks(lv, 2)
        THEN [err |-> Raise("ValueError", 51, <<>>), warns |-> <<>>]
    ELSE IF ~LatticeShapeOK(lv)
        THEN [err |-> Raise("AssertionError", 53, <<>>), warns |-> <<>>]
    ELSE IF ~HasAtoms(at)
        THEN [err |-> Raise("AssertionError", 57, <<>>), warns |-> <<>>]
    ELSE IF ~Unpacks(ap, 2)
        THEN [err |-> Raise("ValueError", 61, <<>>), warns |-> <<>>]
    ELSE IF ~PosShapeOK(ap, at)
        THEN [err |-> Raise("AssertionError", 63, <<>>), warns |-> <<>>]
    ELSE LET w == IF NotFractional(ap) THEN <<WarnFractional>> ELSE <<>>
         IN  IF ~MassOK(am, at)
                THEN [err |-> Raise("AssertionError", 74, <<>>), warns |-> w]
                ELSE [err |-> NoErr, warns |-> w]

-----------------------------------------------------------------------------
(* Structure arguments the model draws from. *)

\* lattice_vectors: None, 3x3, and arrays of other shapes (entries are only
\* ever passed on to PhonopyAtoms)
LatticeChoices ==
    {NoneArg} \cup
    {Arr(s, <<>>) : s \in {<<3, 3>>, <<2, 3>>, <<3, 2>>, <<2, 2>>, <<3>>, <<3, 3, 3>>}}

\* atom_types: None, or a list of 0..MaxAtoms symbols
AtomTypesChoices ==
    {NoneArg} \cup {Arr(<<n>>, [i \in 1..n |-> "Si"]) : n \in 0..MaxAtoms}

\* positions: 1.0 (on the limit), -1.5 and 1.5 (beyond it), in units of 1e-6
PosVals == {PosLimit, 0 - 1500000, 1500000}

\* an r x c position array: zeros, with v as its last entry
PosArr(r, c, v) ==
    Arr(<<r, c>>, [i \in 1..r |-> [j \in 1..c |-> IF i = r /\ j = c THEN v ELSE 0]])

\* atom_pos: None, the empty list, a flat list, or an r x c array
AtomPosChoices ==
    {NoneArg, Arr(<<0>>, <<>>), Arr(<<3>>, <<>>)} \cup
    {PosArr(r, c, v) : r \in 1..MaxAtoms, c \in {2, 3}, v \in PosVals}

\* atom_mass: None (the default), or a list of 0..MaxAtoms masses
AtomMassChoices ==
    {NoneArg} \cup {Arr(<<n>>, [i \in 1..n |-> 28]) : n \in 0..MaxAtoms}

-----------------------------------------------------------------------------
(* BuildForceConstants, Common.py:166-319: the pure parts. *)

\* Common.py:194-197
n_at == atom_types.shape[1]
n_q == q_pts.shape[1]
n_b == 3 * n_at

\* Common.py:192, "assert dim_1 > 0 and dim_2 == 3"
QPtsShapeOK(q) == q.shape[1] > 0 /\ q.shape[2] = 3

\* the band count left unchecked
FreqsShapeOK_RowsOnly(f, nq, nb) == f.shape[1] = nq

\* Common.py:201, "assert dim_1 == n_q and dim_2 == n_b"
FreqsShapeOK(f, nq, nb) == f.shape[1] = nq /\ f.shape[2] = nb

\* Common.py:205, "assert dim_1 == n_q and dim_2 == n_b and dim_3 == n_at and dim_4 == 3"
EigsShapeOK(e, nq, nb, nat) ==
    e.shape[1] = nq /\ e.shape[2] = nb /\ e.shape[3] = nat /\ e.shape[4] = 3

\* "<=" for "==" in the assertion of line 209
ScDimShapeOK_AtMostThree(s) == s.shape[1] <= 3

\* Common.py:209, "assert dim_1 == 3"
ScDimShapeOK(s) == s.shape[1] = 3

\* freq_conv_factor initialised to VaspToTHz instead of None
SelectFactor_DefaultTHz(units) ==
    IF units = "inv_cm" THEN VaspToCm ELSE VaspToTHz

\* Common.py:213-218: the factor selected for freq_units; 0 stands for None
SelectFactor(units) ==
    IF units = "thz" THEN VaspToTHz
    ELSE IF units = "inv_cm" THEN VaspToCm
    ELSE 0

\* Common.py:233, "if dim_1 != dim_2 != dim_2 != 1": Python chains the
\* comparisons, (dim_1 != dim_2) and (dim_2 != dim_2) and (dim_2 != 1)
GammaTestFails(dim_1, dim_2, dim_3) ==
    dim_1 # dim_2 /\ dim_2 # dim_2 /\ dim_2 # 1

\* Common.py:236
ScMatrix(dim_1, dim_2, dim_3) ==
    <<<<dim_1, 0, 0>>, <<0, dim_2, 0>>, <<0, 0, dim_3>>>>

\* ">=" for "!=" in the test of line 254
CountDiffers_NotFewer(cps, nq) == Len(cps) >= nq

\* Common.py:254, "if len(commensurate_points) != n_q"
CountDiffers(cps, nq) == Len(cps) # nq

\* Common.py:265: the test of one dataset q-point q_2 against the
\* commensurate point q_1
Matches(q_1, q_2) ==
    Close(q_2[1], q_1[1]) /\ Close(q_2[2], q_1[2]) /\ Close(q_2[3], q_1[3])

\* Common.py:262-267: the scan "for i, q in enumerate(q_pts)" from position
\* i (0-based) on, stopping at the first match; -1 stands for None
RECURSIVE ScanFrom(_, _, _)
ScanFrom(q_1, qs, i) ==
    IF i >= Len(qs) THEN 0 - 1
    ELSE IF Matches(q_1, qs[i + 1]) THEN i
    ELSE ScanFrom(q_1, qs, i + 1)

\* map_index initialised to 0 instead of None: an unmatched point takes entry 0
FindMapIndex_DefaultZero(q_1, qs) ==
    IF ScanFrom(q_1, qs, 0) = 0 - 1 THEN 0 ELSE ScanFrom(q_1, qs, 0)

\* Common.py:262-267
FindMapIndex(q_1, qs) == ScanFrom(q_1, qs, 0)

\* the index compared with the entry mapped last only
NotYetMapped_LastOnly(map_index, indices) ==
    indices = <<>> \/ indices[Len(indices)] # map_index

\* the sanity check left out
NotYetMapped_Unchecked(map_index, indices) == TRUE

\* Common.py:274, "assert map_index not in map_indices"
NotYetMapped(map_index, indices) ==
    \A k \in 1..Len(indices) : indices[k] # map_index

\* Common.py:270, "{0: >6.3f}": x to three decimals, as a count of thousandths
\* (no coordinate of the model lies halfway between two thousandths)
Fmt3(x) ==
    IF x >= 0 THEN (2 * x + FmtStep) \div (2 * FmtStep)
    ELSE 0 - ((2 * (0 - x) + FmtStep) \div (2 * FmtStep))

\* a slip in the format string: "{0}" three times
UnmatchedMessage_SameField(q_1) == <<Fmt3(q_1[1]), Fmt3(q_1[1]), Fmt3(q_1[1])>>

\* Common.py:270: the arguments of the message
UnmatchedMessage(q_1) == <<Fmt3(q_1[1]), Fmt3(q_1[2]), Fmt3(q_1[3])>>

RECURSIVE GCD(_, _)
GCD(a, b) == IF b = 0 THEN a ELSE GCD(b, a % b)

\* Common.py:284, "freq / freq_conv_factor": the quotient of freq by the
\* factor (in units of 1e-6), as <<numerator, denominator>> in lowest terms
ConvertFreq(freq, factor) ==
    LET n == freq * FactorScale
        g == GCD(Abs(n), factor)
    IN  <<n \div g, factor \div g>>

\* Common.py:283-285
ConvertFreqs(row, factor) == [b \in 1..Len(row) |-> ConvertFreq(row[b], factor)]

\* "for j in range(3): for i in range(n_at)" for the loops of lines 295-296
EigRows_CartesianMajor(eig, nat, nb) ==
    [r \in 1..(3 * nat) |->
        [k \in 1..nb |-> eig[k][((r - 1) % nat) + 1][((r - 1) \div nat) + 1]]]

\* Common.py:295-304: eig[k][i][j] for i in range(n_at), j in range(3),
\* k in range(n_b), one row per (i, j) in loop order
EigRows(eig, nat, nb) ==
    [r \in 1..(3 * nat) |->
        [k \in 1..nb |-> eig[k][((r - 1) \div 3) + 1][((r - 1) % 3) + 1]]]

-----------------------------------------------------------------------------
(* Dataset arguments the model draws from. *)

\* q-points (fractional, in units of 1e-6): Gamma; a point 4e-6 / 1e-5 away
\* from it, at the tolerance on the third axis; a point inside the tolerance
\* of Gamma on every axis; X = (0.5, 0, 0)
Gamma == <<0, 0, 0>>
NearGamma == <<4, 0, _SymPrec>>
InsideTolerance == <<4, 0, 4>>
XPoint == <<500000, 0, 0>>
DataPoints == {Gamma, NearGamma, InsideTolerance, XPoint}

\* what the engine may return as a commensurate point
CommPoints == {Gamma, InsideTolerance, XPoint}

\* q_pts: the empty list, a flat list, n x 2, or n x 3 with any points
QPtsChoices ==
    {Arr(<<0>>, <<>>), Arr(<<3>>, <<>>), Arr(<<1, 2>>, <<>>)} \cup
    UNION {{Arr(<<n, 3>>, qs) : qs \in [1..n -> DataPoints]} : n \in 1..MaxQ}

\* an n x b array of frequencies, all different, some negative
FreqArr(n, b) == Arr(<<n, b>>, [i \in 1..n |-> [k \in 1..b |-> 10 * i + k - 12]])

FreqsChoices ==
    {Arr(<<3>>, <<>>)} \cup
    {FreqArr(n, 3 * a) : n \in 1..MaxQ, a \in 1..MaxAtoms} \cup
    {FreqArr(n, 2) : n \in 1..MaxQ}

\* an n x b x a x c array of eigenvector components, all different
EigArr(n, b, a, c) ==
    Arr(<<n, b, a, c>>,
        [i \in 1..n |-> [k \in 1..b |-> [m \in 1..a |-> [x \in 1..c |->
            ((i * 10 + k) * 10 + m) * 10 + x]]]])

EigsChoices ==
    {Arr(<<3, 3, 3>>, <<>>)} \cup
    {EigArr(n, 3 * a, m, c) : n \in 1..MaxQ, a \in 1..MaxAtoms, m \in 1..MaxAtoms, c \in {2, 3}}

\* sc_dim: a triple, a pair, or a 3 x 3 matrix
ScDimChoices ==
    {Arr(<<2>>, <<2, 2>>), Arr(<<3, 3>>, <<>>)} \cup
    {Arr(<<3>>, d) : d \in {<<1, 1, 1>>, <<2, 1, 1>>, <<2, 2, 1>>}}

FreqUnitsChoices == {"thz", "inv_cm", "THz", "mev"}

\* a path: directory, file name root and extension
Path(dir, root, ext) == [dir |-> dir, root |-> root, ext |-> ext]
NoPath == Path("", "", "")

\* file_path: the default, or a path of the caller's
FilePathChoices == {Path("", "FORCE_CONSTANTS", ""), Path("run1", "fc", ".dat")}

\* the content written by write_FORCE_CONSTANTS: the engine's force constants
ForceConstantsFile(p) ==
    [path |-> p, kind |-> "FORCE_CONSTANTS", title |-> "", counts |-> <<>>,
     lattice |-> <<>>, positions |-> <<>>]

\* all duplicate-free lists of 1..MaxComm commensurate points
CommLists ==
    UNION {{cps \in [1..n -> CommPoints] :
                \A i, j \in 1..n : i # j => cps[i] # cps[j]} : n \in 1..MaxComm}

\* "for index in range(n_q)" for "for index in map_indices"
ArrangeFreqs_AllEntries(indices, fdata, factor) ==
    [c \in 1..Len(fdata) |-> ConvertFreqs(fdata[c], factor)]

\* Common.py:282-285: one converted frequency row per mapped index
ArrangeFreqs(indices, fdata, factor) ==
    [c \in 1..Len(indices) |-> ConvertFreqs(fdata[indices[c] + 1], factor)]

\* Common.py:282, 287-306: one 3N x 3N matrix per mapped index
ArrangeEigs(indices, edata, nat, nb) ==
    [c \in 1..Len(indices) |-> EigRows(edata[indices[c] + 1], nat, nb)]

WarnGamma == "The dynamical matrix -> force constants transform has only been tested at the Gamma point; please report issues to the developer."
WarnCount == "The number of entries in the q_pts list does not equal the number of commensurate points expected for the supplied supercell matrix."

Call(name, args) == [call |-> name, args |-> args]

-----------------------------------------------------------------------------
(* The call, statement group by statement group. *)

Init ==
    /\ pc = "check_structure"
    /\ err = NoErr
    /\ warnings = <<>>
    /\ lattice_vectors = NotRead /\ atom_types = NotRead
    /\ atom_pos = NotRead /\ atom_mass = NotRead
    /\ q_pts = NotRead /\ freqs = NotRead /\ eigs = NotRead /\ sc_dim = NotRead
    /\ freq_units = "" /\ file_path = NoPath /\ structure_name = ""
    /\ freq_conv_factor = 0
    /\ sc_matrix = <<>>
    /\ engine = <<>>
    /\ commensurate_points = <<>>
    /\ cp_next = 0
    /\ map_indices = <<>>
    /\ freq_sets = <<>> /\ eig_sets = <<>>
    /\ files = {}
    /\ rp_pc = "header" /\ rp_err = NoErr
    /\ phonon_file = <<>>
    /\ params = NoParams
    /\ qpt_i = 0 /\ qpt_locals = <<>>
    /\ q_point_data = NoneList
    /\ fc3_pc = "lines" /\ fc3_err = NoErr
    /\ fc3_lines = <<>>
    /\ force_sets = <<>>
    /\ disps = NoneList /\ force_set = NoneList

\* an exception leaves the call
Fail(e) == pc' = "failed" /\ err' = e

\* Common.py:185
CheckStructure ==
    /\ pc = "check_structure"
    /\ \E lv \in LatticeChoices, at \in AtomTypesChoices,
          ap \in AtomPosChoices, am \in AtomMassChoices :
        LET r == _CheckStructure(lv, at, ap, am)
        IN  /\ lattice_vectors' = lv /\ atom_types' = at
            /\ atom_pos' = ap /\ atom_mass' = am
            /\ warnings' = warnings \o r.warns
            /\ IF r.err # NoErr THEN Fail(r.err)
               ELSE pc' = "check_none" /\ err' = err
    /\ UNCHANGED <<readerVars, structure_name, q_pts, freqs, eigs, sc_dim, freq_units, file_path,
                   freq_conv_factor, sc_matrix, engine, commensurate_points,
                   cp_next, map_indices, freq_sets, eig_sets, files>>

\* Common.py:187-188; first = the first of q_pts, freqs, eigs, sc_dim that is
\* None (0: none of them is)
CheckNotNone ==
    /\ pc = "check_none"
    /\ \E first \in 0..4 :
        /\ q_pts' = IF first = 1 THEN NoneArg ELSE NotRead
        /\ freqs' = IF first = 2 THEN NoneArg ELSE NotRead
        /\ eigs' = IF first = 3 THEN NoneArg ELSE NotRead
        /\ sc_dim' = IF first = 4 THEN NoneArg ELSE NotRead
        /\ IF first # 0 THEN Fail(Raise("AssertionError", 188, <<>>))
           ELSE pc' = "check_q_pts" /\ err' = err
    /\ UNCHANGED <<readerVars, structure_name, warnings, lattice_vectors, atom_types, atom_pos, atom_mass,
                   freq_units, file_path, freq_conv_factor, sc_matrix, engine,
                   commensurate_points, cp_next, map_indices, freq_sets,
                   eig_sets, files>>

\* Common.py:190-197
CheckQPts ==
    /\ pc = "check_q_pts"
    /\ \E q \in QPtsChoices :
        /\ q_pts' = q
        /\ IF ~Unpacks(q, 2) THEN Fail(Raise("ValueError", 190, <<>>))
           ELSE IF ~QPtsShapeOK(q) THEN Fail(Raise("AssertionError", 192, <<>>))
           ELSE pc' = "check_freqs" /\ err' = err
    /\ UNCHANGED <<readerVars, structure_name, warnings, lattice_vectors, atom_types, atom_pos, atom_mass,
                   freqs, eigs, sc_dim, freq_units, file_path,
                   freq_conv_factor, sc_matrix, engine, commensurate_points,
                   cp_next, map_indices, freq_sets, eig_sets, files>>

\* Common.py:199-201
CheckFreqs ==
    /\ pc = "check_freqs"
    /\ \E f \in FreqsChoices :
        /\ freqs' = f
        /\ IF ~Unpacks(f, 2) THEN Fail(Raise("ValueError", 199, <<>>))
           ELSE IF ~FreqsShapeOK(f, n_q, n_b)
                THEN Fail(Raise("AssertionError", 201, <<>>))
           ELSE pc' = "check_eigs" /\ err' = err
    /\ UNCHANGED <<readerVars, structure_name, warnings, lattice_vectors, atom_types, atom_pos, atom_mass,
                   q_pts, eigs, sc_dim, freq_units, file_path,
                   freq_conv_factor, sc_matrix, engine, commensurate_points,
                   cp_next, map_indices, freq_sets, eig_sets, files>>

\* Common.py:203-205
CheckEigs ==
    /\ pc = "check_eigs"
    /\ \E e \in EigsChoices :
        /\ eigs' = e
        /\ IF ~Unpacks(e, 4) THEN Fail(Raise("ValueError", 203, <<>>))
           ELSE IF ~EigsShapeOK(e, n_q, n_b, n_at)
                THEN Fail(Raise("AssertionError", 205, <<>>))
           ELSE pc' = "check_sc_dim" /\ err' = err
    /\ UNCHANGED <<readerVars, structure_name, warnings, lattice_vectors, atom_types, atom_pos, atom_mass,
                   q_pts, freqs, sc_dim, freq_units, file_path,
                   freq_conv_factor, sc_matrix, engine, commensurate_points,
                   cp_next, map_indices, freq_sets, eig_sets, files>>

\* Common.py:207-209
CheckScDim ==
    /\ pc = "check_sc_dim"
    /\ \E s \in ScDimChoices :
        /\ sc_dim' = s
        /\ IF ~Unpacks(s, 1) THEN Fail(Raise("ValueError", 207, <<>>))
           ELSE IF ~ScDimShapeOK(s) THEN Fail(Raise("AssertionError", 209, <<>>))
           ELSE pc' = "select_units" /\ err' = err
    /\ UNCHANGED <<readerVars, structure_name, warnings, lattice_vectors, atom_types, atom_pos, atom_mass,
                   q_pts, freqs, eigs, freq_units, file_path,
                   freq_conv_factor, sc_matrix, engine, commensurate_points,
                   cp_next, map_indices, freq_sets, eig_sets, files>>

\* Common.py:211-221
SelectUnits ==
    /\ pc = "select_units"
    /\ \E u \in FreqUnitsChoices :
        /\ freq_units' = u
        /\ freq_conv_factor' = SelectFactor(u)
        /\ IF SelectFactor(u) = 0 THEN Fail(Raise("Exception", 221, <<u>>))
           ELSE pc' = "build_engine" /\ err' = err
    /\ UNCHANGED <<readerVars, structure_name, warnings, lattice_vectors, atom_types, atom_pos, atom_mass,
                   q_pts, freqs, eigs, sc_dim, file_path, sc_matrix, engine,
                   commensurate_points, cp_next, map_indices, freq_sets,
                   eig_sets, files>>

\* Common.py:223-249: the structure, the Gamma-point warning, the supercell
\* matrix, the Phonopy objects and the commensurate points they return
BuildEngine ==
    /\ pc = "build_engine"
    /\ LET dim_1 == sc_dim.data[1]
           dim_2 == sc_dim.data[2]
           dim_3 == sc_dim.data[3]
       IN  /\ warnings' = IF GammaTestFails(dim_1, dim_2, dim_3)
                             THEN Append(warnings, WarnGamma) ELSE warnings
           /\ sc_matrix' = ScMatrix(dim_1, dim_2, dim_3)
           /\ engine' = engine \o
                <<Call("PhonopyAtoms", <<atom_types, atom_mass, atom_pos, lattice_vectors>>),
                  Call("Phonopy", <<ScMatrix(dim_1, dim_2, dim_3)>>),
                  Call("get_primitive", <<>>),
                  Call("get_supercell", <<>>),
                  Call("DynmatToForceConstants", <<>>),
                  Call("get_commensurate_points", <<>>)>>
    /\ \E cps \in CommLists : commensurate_points' = cps
    /\ pc' = "warn_count"
    /\ UNCHANGED <<readerVars, structure_name, err, lattice_vectors, atom_types, atom_pos, atom_mass,
                   q_pts, freqs, eigs, sc_dim, freq_units, file_path,
                   freq_conv_factor, cp_next, map_indices, freq_sets,
                   eig_sets, files>>

\* Common.py:254-259
CheckCount ==
    /\ pc = "warn_count"
    /\ warnings' = IF CountDiffers(commensurate_points, n_q)
                     THEN Append(warnings, WarnCount) ELSE warnings
    /\ map_indices' = <<>>
    /\ cp_next' = 1
    /\ pc' = "match"
    /\ UNCHANGED <<readerVars, structure_name, err, lattice_vectors, atom_types, atom_pos, atom_mass,
                   q_pts, freqs, eigs, sc_dim, freq_units, file_path,
                   freq_conv_factor, sc_matrix, engine, commensurate_points,
                   freq_sets, eig_sets, files>>

\* Common.py:261-276: one pass of the loop over the commensurate points
MatchPoint ==
    /\ pc = "match"
    /\ cp_next <= Len(commensurate_points)
    /\ LET q_1 == commensurate_points[cp_next]
           map_index == FindMapIndex(q_1, q_pts.data)
       IN  IF map_index = 0 - 1
             THEN /\ Fail(Raise("Exception", 270, UnmatchedMessage(q_1)))
                  /\ UNCHANGED <<map_indices, cp_next>>
           ELSE IF ~NotYetMapped(map_index, map_indices)
             THEN /\ Fail(Raise("AssertionError", 274, <<>>))
                  /\ UNCHANGED <<map_indices, cp_next>>
           ELSE /\ map_indices' = Append(map_indices, map_index)
                /\ cp_next' = cp_next + 1
                /\ UNCHANGED <<pc, err>>
    /\ UNCHANGED <<readerVars, structure_name, warnings, lattice_vectors, atom_types, atom_pos, atom_mass,
                   q_pts, freqs, eigs, sc_dim, freq_units, file_path,
                   freq_conv_factor, sc_matrix, engine, commensurate_points,
                   freq_sets, eig_sets, files>>

\* Common.py:278-309, once the loop has run out of commensurate points
Arrange ==
    /\ pc = "match"
    /\ cp_next > Len(commensurate_points)
    /\ freq_sets' = ArrangeFreqs(map_indices, freqs.data, freq_conv_factor)
    /\ eig_sets' = ArrangeEigs(map_indices, eigs.data, n_at, n_b)
    /\ pc' = "run"
    /\ UNCHANGED <<readerVars, structure_name, err, warnings, lattice_vectors, atom_types, atom_pos,
                   atom_mass, q_pts, freqs, eigs, sc_dim, freq_units,
                   file_path, freq_conv_factor, sc_matrix, engine,
                   commensurate_points, cp_next, map_indices, files>>

\* Common.py:313-315
RunEngine ==
    /\ pc = "run"
    /\ engine' = engine \o
            <<Call("set_dynamical_matrices", <<freq_sets, eig_sets>>),
              Call("run", <<>>)>>
    /\ pc' = "write"
    /\ UNCHANGED <<readerVars, structure_name, err, warnings, lattice_vectors, atom_types, atom_pos,
                   atom_mass, q_pts, freqs, eigs, sc_dim, freq_units,
                   file_path, freq_conv_factor, sc_matrix,
                   commensurate_points, cp_next, map_indices, freq_sets,
                   eig_sets, files>>

\* Common.py:317-319
WriteForceConstants ==
    /\ pc = "write"
    /\ \E p \in FilePathChoices :
        /\ file_path' = p
        /\ files' = files \cup {ForceConstantsFile(p)}
    /\ engine' = Append(engine, Call("get_force_constants", <<>>))
    /\ pc' = "done"
    /\ UNCHANGED <<readerVars, structure_name, err, warnings, lattice_vectors, atom_types, atom_pos,
                   atom_mass, q_pts, freqs, eigs, sc_dim, freq_units,
                   freq_conv_factor, sc_matrix, commensurate_points, cp_next,
                   map_indices, freq_sets, eig_sets>>

-----------------------------------------------------------------------------
(* WritePOSCAR, Common.py:76-164. *)

\* Common.py:94-95, os.path.split and os.path.splitext: the file name
\* without its directory and extension
PathRoot(p) == p.root

\* Common.py:101-117: the runs of equal consecutive symbols, from symbol i on,
\* with type_temp seen count_temp times so far
RECURSIVE TypeRuns(_, _, _, _)
TypeRuns(types, i, type_temp, count_temp) ==
    IF i > Len(types) THEN <<[type |-> type_temp, count |-> count_temp]>>
    ELSE IF types[i] = type_temp
        THEN TypeRuns(types, i + 1, type_temp, count_temp + 1)
    ELSE <<[type |-> type_temp, count |-> count_temp]>>
            \o TypeRuns(types, i + 1, types[i], 1)

\* Common.py:101-117
AtomTypesCounts(types) == TypeRuns(types, 2, types[1], 1)

\* Common.py:121, the path the output file is opened at
PoscarOpenPath(p) == Path("", "POSCAR", ".vasp")

\* Common.py:121-164: the file written
PoscarFile(p, name, lv, at, ap) ==
    [path |-> PoscarOpenPath(p), kind |-> "POSCAR", title |-> name,
     counts |-> AtomTypesCounts(at.data),
     lattice |-> lv.data, positions |-> ap.data]

\* atom_types for WritePOSCAR: None, or up to MaxAtoms symbols of two kinds
PoscarTypesChoices ==
    {NoneArg} \cup
    UNION {{Arr(<<n>>, t) : t \in [1..n -> {"Si", "O"}]} : n \in 0..MaxAtoms}

\* file_path for WritePOSCAR: the default, or a path of the caller's
PoscarPathChoices == {Path("", "POSCAR", ".vasp"), Path("out", "SiO2", ".vasp")}

\* structure_name for WritePOSCAR: None (the default, ""), or a name
StructureNameChoices == {"", "quartz"}

\* Common.py:76-164, the whole call
WritePOSCAR ==
    /\ pc = "check_structure"
    /\ \E lv \in LatticeChoices, at \in PoscarTypesChoices,
          ap \in AtomPosChoices, p \in PoscarPathChoices,
          name \in StructureNameChoices :
        LET r == _CheckStructure(lv, at, ap, NoneArg)
        IN  /\ lattice_vectors' = lv /\ atom_types' = at
            /\ atom_pos' = ap /\ atom_mass' = NoneArg
            /\ file_path' = p /\ structure_name' = name
            /\ warnings' = warnings \o r.warns
            /\ IF r.err # NoErr
                 THEN Fail(r.err) /\ files' = files
                 ELSE /\ files' = files \cup {PoscarFile(p, PathRoot(p), lv, at, ap)}
                      /\ pc' = "poscar_written" /\ err' = err
    /\ UNCHANGED <<readerVars, q_pts, freqs, eigs, sc_dim, freq_units, freq_conv_factor,
                   sc_matrix, engine, commensurate_points, cp_next,
                   map_indices, freq_sets, eig_sets>>

Next ==
    \/ WritePOSCAR
    \/ CheckStructure
    \/ CheckNotNone
    \/ CheckQPts
    \/ CheckFreqs
    \/ CheckEigs
    \/ CheckScDim
    \/ SelectUnits
    \/ BuildEngine
    \/ CheckCount
    \/ MatchPoint
    \/ Arrange
    \/ RunEngine
    \/ WriteForceConstants

Spec == Init /\ [][Next]_vars

-----------------------------------------------------------------------------
(* Vocabulary of the properties, stated on the arguments and results only. *)

\* the source line the call is about to execute
PcLine ==
    CASE pc = "check_structure" -> 185
      [] pc = "check_none" -> 187
      [] pc = "check_q_pts" -> 190
      [] pc = "check_freqs" -> 199
      [] pc = "check_eigs" -> 203
      [] pc = "check_sc_dim" -> 207
      [] pc = "select_units" -> 211
      [] pc = "build_engine" -> 223
      [] pc = "warn_count" -> 254
      [] pc = "match" -> 261
      [] pc = "run" -> 313
      [] pc = "write" -> 317
      [] pc = "done" -> 320
      [] pc = "poscar_written" -> 165
      [] pc = "failed" -> err.line

\* the call has executed source line l without raising there or before
Past(l) == IF pc = "failed" THEN err.line > l ELSE PcLine > l

\* the call raised at one of the lines lo..hi
FailedAt(lo, hi) == pc = "failed" /\ err.line >= lo /\ err.line <= hi

Ended == pc \in {"done", "failed", "poscar_written"}

Range(seq) == {seq[i] : i \in 1..Len(seq)}

\* a and b differ by less than the tolerance
Within(a, b) == a - b < _SymPrec /\ b - a < _SymPrec

\* dataset point q is within tolerance of commensurate point c on all axes
PointsMatch(c, q) == \A ax \in 1..3 : Within(c[ax], q[ax])

\* the 0-based indices of the dataset points that match c
MatchSet(c) == {i \in 0..(Len(q_pts.data) - 1) : PointsMatch(c, q_pts.data[i + 1])}

Lowest(S) == CHOOSE i \in S : \A j \in S : i <= j

\* x (units of 1e-6) to the nearest thousandth
Thousandths(x) == CHOOSE t \in 0..1000 : 2 * (x - FmtStep * t) < FmtStep /\ 2 * (FmtStep * t - x) <= FmtStep

\* the commensurate points without a match, by position
UnmatchedAt == {k \in 1..Len(commensurate_points) : MatchSet(commensurate_points[k]) = {}}

-----------------------------------------------------------------------------
(* C1 *)

\* C1, as stated: once the matching loop has ended, if some commensurate
\* point has no dataset q-point within tolerance on all three axes, the call
\* has failed with the unmatched-q-point error (Common.py:270) and the error
\* reports the coordinates of such a point.
C1_UnmatchedAlwaysReported ==
    (Past(259) /\ (Ended \/ Past(276)) /\ UnmatchedAt # {}) =>
        /\ FailedAt(270, 270)
        /\ \E k \in UnmatchedAt :
            err.args = [ax \in 1..3 |-> Thousandths(commensurate_points[k][ax])]

\* C1, amended: once the matching loop has ended, if some commensurate point
\* has no dataset q-point within tolerance on all three axes, the call has
\* failed: with the unmatched-q-point error reporting, to three decimals, the
\* coordinates of the first such point in engine order, unless a commensurate
\* point before it tripped the duplicate-match assertion (Common.py:274).
C1_FirstUnmatchedReported ==
    (Past(259) /\ (Ended \/ Past(276)) /\ UnmatchedAt # {}) =>
        LET u == Lowest(UnmatchedAt)
        IN  /\ pc = "failed"
            /\ \/ /\ err.type = "Exception" /\ err.line = 270
                  /\ cp_next = u
                  /\ err.args = [ax \in 1..3 |-> Thousandths(commensurate_points[u][ax])]
               \/ /\ err.type = "AssertionError" /\ err.line = 274
                  /\ cp_next < u

\* the scenario of the specification: commensurate points (0,0,0), (0.5,0,0),
\* a dataset without (0.5,0,0), and the error naming (0.500, 0.000, 0.000)
C1_Witness ==
    /\ FailedAt(270, 270)
    /\ commensurate_points = <<Gamma, XPoint>>
    /\ q_pts.data = <<Gamma>>
    /\ err.args = <<500, 0, 0>>

-----------------------------------------------------------------------------
(* C2 *)

\* C2: at every step of the matching loop the index mapping is injective (no
\* dataset index is recorded for two commensurate points), no processed
\* commensurate point has the same first match as an earlier one, and the
\* call raises the duplicate-match assertion (Common.py:274) exactly when the
\* first match of the point at hand is an index already recorded.
C2_MappingInjective ==
    /\ \A i, j \in 1..Len(map_indices) :
            i # j => map_indices[i] # map_indices[j]
    /\ Past(259) =>
        /\ Len(map_indices) = cp_next - 1
        /\ \A i, j \in 1..(cp_next - 1) :
            i # j => Lowest(MatchSet(commensurate_points[i]))
                        # Lowest(MatchSet(commensurate_points[j]))
    /\ FailedAt(274, 274) =>
        /\ err.type = "AssertionError"
        /\ Lowest(MatchSet(commensurate_points[cp_next])) \in Range(map_indices)
    /\ FailedAt(270, 270) => MatchSet(commensurate_points[cp_next]) = {}

\* two commensurate points whose first match is the same dataset entry: the
\* call has stopped on the assertion with only the first one recorded
C2_Witness ==
    /\ FailedAt(274, 274)
    /\ map_indices = <<0>>
    /\ cp_next = 2
    /\ MatchSet(commensurate_points[1]) \cap MatchSet(commensurate_points[2]) # {}

-----------------------------------------------------------------------------
(* C3 *)

\* C3: the commensurate points are processed in the order the engine gave
\* them, and the entry recorded for each is the lowest index of a dataset
\* q-point whose difference is strictly below 1e-5 on all three axes; a
\* dataset point that is within tolerance on fewer axes, or exactly at the
\* tolerance on one, is passed over.
C3_FirstMatchRule ==
    Past(259) =>
        /\ Len(map_indices) <= Len(commensurate_points)
        /\ \A k \in 1..Len(map_indices) :
            LET c == commensurate_points[k]
                m == map_indices[k]
            IN  /\ m \in 0..(n_q - 1)
                /\ \A ax \in 1..3 :
                    /\ q_pts.data[m + 1][ax] - c[ax] < _SymPrec
                    /\ c[ax] - q_pts.data[m + 1][ax] < _SymPrec
                /\ \A i \in 0..(m - 1) :
                    \E ax \in 1..3 :
                        \/ q_pts.data[i + 1][ax] - c[ax] >= _SymPrec
                        \/ c[ax] - q_pts.data[i + 1][ax] >= _SymPrec

\* Gamma against a dataset whose first entry is exactly at the tolerance on
\* one axis and whose second entry is the match
C3_Witness ==
    /\ pc = "done"
    /\ commensurate_points[1] = Gamma
    /\ q_pts.data = <<NearGamma, Gamma>>
    /\ map_indices[1] = 1

-----------------------------------------------------------------------------
(* C4 *)

\* the structure arguments are well-formed
StructureValid ==
    /\ ~lattice_vectors.none /\ lattice_vectors.shape = <<3, 3>>
    /\ ~atom_types.none /\ Len(atom_types.shape) = 1 /\ atom_types.shape[1] > 0
    /\ ~atom_pos.none /\ atom_pos.shape = <<atom_types.shape[1], 3>>
    /\ (atom_mass.none \/ atom_mass.shape = atom_types.shape)

\* the dataset arguments are well-formed for the structure
DatasetValid ==
    /\ Len(q_pts.shape) = 2 /\ q_pts.shape[1] > 0 /\ q_pts.shape[2] = 3
    /\ freqs.shape = <<q_pts.shape[1], 3 * atom_types.shape[1]>>
    /\ eigs.shape = <<q_pts.shape[1], 3 * atom_types.shape[1], atom_types.shape[1], 3>>
    /\ sc_dim.shape = <<3>>

\* every commensurate point has its mapping entry, a matching dataset point
Reconciled ==
    /\ Len(map_indices) = Len(commensurate_points)
    /\ \A k \in 1..Len(commensurate_points) :
            map_indices[k] \in MatchSet(commensurate_points[k])
    /\ \A i, j \in 1..Len(map_indices) : i # j => map_indices[i] # map_indices[j]

\* the positions in the engine log of the calls named name
CallsOf(name) == {i \in 1..Len(engine) : engine[i].call = name}

\* the paths at which force constants have been written
ForceConstantsWritten == {f.path : f \in {g \in files : g.kind = "FORCE_CONSTANTS"}}

\* C4: the inverse transform is handed data (set_dynamical_matrices) and the
\* output file is written only after structure validation, the dataset shape
\* checks, unit selection and the reconciliation of every commensurate point
\* have succeeded, the file after the transform has run; a call that ended in
\* an error has handed over nothing and written nothing; and a call in which
\* nothing was raised goes on, whatever warnings it issued, until it has
\* written the file.
C4_OutputOnlyAfterAllChecks ==
    /\ (CallsOf("set_dynamical_matrices") # {} \/ ForceConstantsWritten # {}) =>
        /\ err = NoErr
        /\ StructureValid /\ DatasetValid
        /\ freq_units \in {"thz", "inv_cm"} /\ freq_conv_factor # 0
        /\ Reconciled
    /\ ForceConstantsWritten # {} =>
        /\ ForceConstantsWritten = {file_path}
        /\ \E i \in CallsOf("set_dynamical_matrices") : \E j \in CallsOf("run") :
            \E k \in CallsOf("get_force_constants") : i < j /\ j < k
    /\ pc = "failed" =>
        /\ err # NoErr
        /\ files = {}
        /\ CallsOf("set_dynamical_matrices") = {} /\ CallsOf("run") = {}
    /\ pc = "done" => err = NoErr /\ ForceConstantsWritten # {}
    /\ (err = NoErr /\ pc \notin {"done", "poscar_written", "match"}) => ENABLED Next
    /\ (err = NoErr /\ pc = "match") => cp_next \in 1..(Len(commensurate_points) + 1)

\* a completed call that issued warnings and wrote its file
C4_Witness ==
    /\ pc = "done"
    /\ Len(warnings) = 2
    /\ ForceConstantsWritten = {Path("run1", "fc", ".dat")}

-----------------------------------------------------------------------------
(* C5 *)

\* C5, as stated: once the call has passed the supercell test (Common.py:233)
\* the Gamma-point warning has been issued for every supercell expansion
\* other than (1,1,1), (2,2,1) among them.
C5_GammaWarningIssued ==
    (Past(236) /\ sc_dim.data # <<1, 1, 1>>) => WarnGamma \in Range(warnings)

-----------------------------------------------------------------------------
(* C6 *)

\* the arguments of the set_dynamical_matrices call
Handed == engine[Lowest(CallsOf("set_dynamical_matrices"))].args

\* fr = <<numerator, denominator>> is the quotient of f by the factor K
\* (K in units of 1e-6)
IsQuotient(fr, f, K) ==
    /\ fr[2] > 0
    /\ K % fr[2] = 0
    /\ fr[1] * (K \div fr[2]) = f * FactorScale

-----------------------------------------------------------------------------
(* C7 *)

\* the number of atom symbols supplied
SymbolCount == IF atom_types.none THEN 0 ELSE atom_types.shape[1]

LatticeNot3x3 == lattice_vectors.none \/ lattice_vectors.shape # <<3, 3>>
NoSymbols == SymbolCount = 0
PositionsMisshapen == atom_pos.none \/ atom_pos.shape # <<SymbolCount, 3>>
MassCountDiffers == ~atom_mass.none /\ atom_mass.shape # <<SymbolCount>>

\* C7: once structure validation has run, the call has failed in it
\* (Common.py:41-74, an AssertionError or the ValueError of a shape that does
\* not unpack) with no Phonopy object constructed or called, if the lattice
\* vectors are not 3x3, the symbol list is empty, the positions are not
\* (symbol count) x 3, or masses are given and their count differs from the
\* symbol count; and it has not failed there otherwise.
C7_StructureShapeErrors ==
    pc # "check_structure" =>
        IF LatticeNot3x3 \/ NoSymbols \/ PositionsMisshapen \/ MassCountDiffers
        THEN /\ FailedAt(41, 74)
             /\ err.type \in {"AssertionError", "ValueError"}
             /\ engine = <<>>
        ELSE ~FailedAt(41, 74)

\* a 2x3 lattice stopped by the assertion on the lattice shape
C7_Witness ==
    /\ FailedAt(53, 53)
    /\ lattice_vectors.shape = <<2, 3>>
    /\ engine = <<>>

-----------------------------------------------------------------------------
(* C8 *)

\* C8: with N atom symbols and n_q entries in q_pts, the call gets past the
\* check of freqs only if freqs is n_q x 3N and past the check of eigs only if
\* eigs is n_q x 3N x N x 3, and it fails at those checks (Common.py:199-205)
\* only for arrays of another shape.
C8_BandCountChecked ==
    /\ Past(201) => freqs.shape = <<n_q, 3 * SymbolCount>>
    /\ Past(205) => eigs.shape = <<n_q, 3 * SymbolCount, SymbolCount, 3>>
    /\ FailedAt(199, 201) =>
        /\ freqs.shape # <<n_q, 3 * SymbolCount>>
        /\ err.type \in {"AssertionError", "ValueError"}
    /\ FailedAt(203, 205) =>
        /\ eigs.shape # <<n_q, 3 * SymbolCount, SymbolCount, 3>>
        /\ err.type \in {"AssertionError", "ValueError"}

\* one atom and six bands per q-point
C8_Witness ==
    /\ FailedAt(201, 201)
    /\ SymbolCount = 1
    /\ freqs.shape = <<n_q, 6>>

-----------------------------------------------------------------------------
(* C9 *)

\* some position has absolute value above 1.0
SomePositionBeyondOne ==
    \E i \in 1..Len(atom_pos.data) : \E j \in 1..Len(atom_pos.data[i]) :
        \/ atom_pos.data[i][j] > PosLimit
        \/ atom_pos.data[i][j] < 0 - PosLimit

\* the number of times w has been issued
TimesWarned(w) == Cardinality({i \in 1..Len(warnings) : warnings[i] = w})

\* C9: for a structure whose lattice, symbols and positions have the right
\* shapes, structure validation has issued the fractional-coordinates warning
\* (once) exactly if some position has absolute value above 1.0, and whether
\* it fails is decided by the mass count alone, with or without the warning:
\* the warning never aborts the validation or the call.
C9_FractionalWarningOnly ==
    (pc # "check_structure" /\ ~LatticeNot3x3 /\ ~NoSymbols /\ ~PositionsMisshapen) =>
        /\ TimesWarned(WarnFractional) = IF SomePositionBeyondOne THEN 1 ELSE 0
        /\ FailedAt(41, 74) <=> MassCountDiffers
        /\ FailedAt(41, 74) => err.line = 74

\* the scenario of the specification: a position of 1.5, the warning issued,
\* the call completed
C9_Witness ==
    /\ pc = "done"
    /\ atom_pos.data[1][3] = 1500000
    /\ warnings[1] = WarnFractional

-----------------------------------------------------------------------------
(* C10 *)

\* the Phonopy constant documented for the unit
UnitConstant ==
    CASE freq_units = "thz" -> VaspToTHz
      [] freq_units = "inv_cm" -> VaspToCm

\* C10: once the unit has been looked at, either it is 'thz' and the factor
\* is VaspToTHz, or it is 'inv_cm' and the factor is VaspToCm, or the call has
\* failed with the unknown-unit exception (Common.py:221) naming the unit;
\* and every frequency handed to the engine is the frequency of the mapped
\* dataset entry divided by the constant of the unit.
C10_ClosedUnitEnumeration ==
    /\ (Past(209) /\ pc # "select_units") =>
        \/ freq_units = "thz" /\ freq_conv_factor = VaspToTHz /\ ~FailedAt(211, 221)
        \/ freq_units = "inv_cm" /\ freq_conv_factor = VaspToCm /\ ~FailedAt(211, 221)
        \/ /\ freq_units \notin {"thz", "inv_cm"}
           /\ FailedAt(221, 221)
           /\ err.type = "Exception" /\ err.args = <<freq_units>>
    /\ CallsOf("set_dynamical_matrices") # {} =>
        \A c \in 1..Len(Handed[1]) : \A b \in 1..Len(Handed[1][c]) :
            IsQuotient(Handed[1][c][b], freqs.data[map_indices[c] + 1][b], UnitConstant)

\* a completed call with frequencies in inverse centimetres
C10_Witness ==
    /\ pc = "done"
    /\ freq_units = "inv_cm"
    /\ Handed[1][1][1] = <<0 - 100000, 52147083>>

-----------------------------------------------------------------------------
(* C11 *)

\* the inverse reshape: from [atom.Cartesian][band] back to
\* [band][atom][Cartesian]
InverseReshape(rows, nat, nb) ==
    [k \in 1..nb |-> [a \in 1..nat |-> [x \in 1..3 |-> rows[3 * (a - 1) + x][k]]]]

\* the values held by a [band][atom][Cartesian] tensor
TensorValues(t) ==
    {t[k][a][x] : k \in DOMAIN t, a \in 1..atom_types.shape[1], x \in 1..3}

\* the values held by a matrix
MatrixValues(rows) == UNION {Range(rows[r]) : r \in DOMAIN rows}

\* C11: when the arrangement of lines 278-309 is done, for every mapped
\* q-point the 3N x 3N matrix built from its eigenvectors is the exact
\* transpose-and-flatten of the input: row 3*a + c, column b holds
\* input[b][a][c] (0-based), every input entry appears exactly once in the
\* output (the output holds the input's 3N * 3N distinct values in its
\* 3N * 3N positions), and the inverse reshape gives back the input tensor;
\* these matrices are what the engine is then handed.
C11_ReshapeIsTransposeFlatten ==
    /\ pc \in {"write", "done"} => Handed[2] = eig_sets
    /\ pc = "run" =>
        \A c \in 1..Len(map_indices) :
            LET N == atom_types.shape[1]
                input == eigs.data[map_indices[c] + 1]
                output == eig_sets[c]
            IN  /\ Len(output) = 3 * N
                /\ \A r \in 1..(3 * N) : Len(output[r]) = 3 * N
                /\ \A a \in 0..(N - 1) : \A x \in 0..2 : \A b \in 0..(3 * N - 1) :
                    output[3 * a + x + 1][b + 1] = input[b + 1][a + 1][x + 1]
                /\ MatrixValues(output) = TensorValues(input)
                /\ Cardinality(TensorValues(input)) = (3 * N) * (3 * N)
                /\ InverseReshape(output, N, 3 * N) = input

\* two atoms, two commensurate points, the second dataset entry used first
C11_Witness ==
    /\ pc = "run"
    /\ atom_types.shape[1] = 2
    /\ map_indices = <<1, 0>>
    /\ Len(eig_sets) = 2 /\ Len(eig_sets[1]) = 6

-----------------------------------------------------------------------------
(* C12 *)

\* the dataset holds every commensurate point, coordinate for coordinate
ContainsEveryCommensuratePoint ==
    \A c \in 1..Len(commensurate_points) :
        commensurate_points[c] \in Range(q_pts.data)

\* some dataset entry is within the tolerance of more than one commensurate
\* point: the tolerance is beyond the spacing of the points
ToleranceBeyondSpacing ==
    \E i \in 1..Len(q_pts.data) : \E c, d \in 1..Len(commensurate_points) :
        /\ c # d
        /\ PointsMatch(commensurate_points[c], q_pts.data[i])
        /\ PointsMatch(commensurate_points[d], q_pts.data[i])

\* C12: with the tolerance beyond the spacing of the q-points, the
\* reconciliation of a dataset that holds every commensurate point does not
\* fail: the matching loop of lines 257-276 raises nothing.
C12_WideToleranceStillMaps ==
    (Past(256) /\ ContainsEveryCommensuratePoint /\ ToleranceBeyondSpacing) =>
        ~FailedAt(257, 276)

-----------------------------------------------------------------------------
(* C13 *)

\* the dataset q-points are the commensurate points, one for one and in the
\* same order
SameOrderCoincidence == q_pts.data = commensurate_points

\* no two commensurate points are within the tolerance of one another
WellSeparated ==
    \A c, d \in 1..Len(commensurate_points) :
        c # d => ~PointsMatch(commensurate_points[c], commensurate_points[d])

\* the scenario: 2 atoms with positions inside the cell, 6 bands,
\* q_pts = [(0,0,0), (0.5,0,0)], supercell (2,1,1), commensurate points
\* (0,0,0) and (0.5,0,0)
Scenario211 ==
    /\ atom_types.shape = <<2>> /\ ~SomePositionBeyondOne
    /\ freqs.shape = <<2, 6>> /\ eigs.shape = <<2, 6, 2, 3>>
    /\ q_pts.data = <<Gamma, XPoint>>
    /\ sc_dim.data = <<2, 1, 1>>
    /\ commensurate_points = <<Gamma, XPoint>>

-----------------------------------------------------------------------------
(* C14 *)

\* sc_dim has been read and is an array
ScDimGiven == sc_dim # NotRead /\ ~sc_dim.none

\* m is the 3 x 3 matrix diag(d[1], d[2], d[3])
IsDiagonalOf(m, d) ==
    /\ Len(m) = 3
    /\ \A r \in 1..3 :
        /\ Len(m[r]) = 3
        /\ \A c \in 1..3 : m[r][c] = IF r = c THEN d[r] ELSE 0

\* C14: an sc_dim that is not a one-dimensional sequence of exactly three
\* entries (a pair, a 3 x 3 matrix) ends the call at lines 207-209, before
\* anything is passed to the engine, and a supercell matrix, once built and
\* whenever passed to the engine, is diag(nx, ny, nz) of the three entries of
\* sc_dim, all off-diagonal entries zero.
C14_OnlyDiagonalSupercells ==
    /\ (ScDimGiven /\ sc_dim.shape # <<3>>) => (FailedAt(207, 209) /\ engine = <<>>)
    /\ Past(209) => (ScDimGiven /\ sc_dim.shape = <<3>>)
    /\ Past(236) => IsDiagonalOf(sc_matrix, sc_dim.data)
    /\ \A i \in CallsOf("Phonopy") : IsDiagonalOf(engine[i].args[1], sc_dim.data)
    /\ Cardinality(CallsOf("Phonopy")) <= 1

\* a 3 x 3 matrix given as sc_dim: the call ends at line 207 with nothing
\* passed to the engine
C14_Witness ==
    /\ sc_dim.shape = <<3, 3>>
    /\ FailedAt(207, 207)
    /\ engine = <<>>

-----------------------------------------------------------------------------
(* C15 *)

\* the exception raised carries a message or arguments
CarriesContext == err.args # <<>>

\* C15: every fatal error of the call and of its structure validation
\* carries context: the unmatched q-point error carries the coordinates,
\* and every failed shape, dimension or duplicate-match assertion carries
\* the shapes or indices at fault instead of being a bare AssertionError.
\* (The ValueError Python itself raises when np.shape() does not unpack is
\* left aside: its message is the interpreter's.)
C15_EveryErrorCarriesContext ==
    /\ FailedAt(270, 270) => err.args = UnmatchedMessage(commensurate_points[cp_next])
    /\ (pc = "failed" /\ err.type = "AssertionError") => CarriesContext

-----------------------------------------------------------------------------
(* C17 *)

\* the paths of the files created or overwritten so far
PathsWritten == {f.path : f \in files}

\* C17: a WritePOSCAR call that returns has written exactly one file, at
\* the path given as file_path (POSCAR.vasp when that is the argument's
\* default), and a WritePOSCAR call whose structure validation fails has
\* written no file.
C17_PoscarWrittenAtFilePath ==
    /\ pc = "poscar_written" => PathsWritten = {file_path}
    /\ (FailedAt(41, 74) /\ file_path # NoPath) => files = {}

-----------------------------------------------------------------------------
(* C18 *)

\* the engine has returned more commensurate points than q_pts has entries
FewerEntriesThanPoints ==
    commensurate_points # <<>> /\ n_q < Len(commensurate_points)

\* C18: when q_pts has fewer entries than there are commensurate points,
\* the count warning is issued before the matching loop, the loop maps at
\* most n_q points and never runs to its end, the call ends only in the
\* unmatched-q-point error of line 270 or in the duplicate-match failure of
\* line 274, and no data is handed to the engine and no force constants are
\* written.
C18_FewerEntriesNeverSucceed ==
    FewerEntriesThanPoints =>
        /\ Past(255) => WarnCount \in Range(warnings)
        /\ pc \in {"warn_count", "match", "failed"}
        /\ pc = "match" => cp_next <= n_q + 1
        /\ Len(map_indices) <= n_q
        /\ pc = "failed" =>
            \/ FailedAt(270, 270) /\ err.type = "Exception"
            \/ FailedAt(274, 274) /\ err.type = "AssertionError"
        /\ CallsOf("set_dynamical_matrices") = {}
        /\ ForceConstantsWritten = {}

\* two entries for three commensurate points: both entries mapped, the
\* third point re-selects entry 0
C18_Witness ==
    /\ FailedAt(274, 274)
    /\ n_q = 2 /\ Len(commensurate_points) = 3
    /\ map_indices = <<0, 1>>
    /\ WarnCount \in Range(warnings)

-----------------------------------------------------------------------------
(* ReadPhonon, CASTEP.py:22-185.  The file is the header's three counts   *)
(* and the wavevector blocks that follow it, drawn as they are read; the  *)
(* lattice and atom lines of the header (lines 69-95) and the two marker  *)
(* lines of a block (lines 132-139) are well-formed in every file drawn.  *)

\* the header: whether its first line is "BEGIN header", its three counts,
\* and whether "END header" follows its atom lines
HeaderChoices ==
    {h \in [begin : BOOLEAN, num_atoms : 1..MaxAtoms,
            num_bands : 1..(3 * MaxAtoms), num_qpts : 0..MaxQ, end : BOOLEAN] :
        h.num_bands \in {1, 3 * h.num_atoms}}

\* the frequency line "j freq ir" of block n
BandLine(n, j) == [label |-> j, freq |-> 100 * n + j, ir |-> j]

\* the eigenvector line "j k re_x im_x re_y im_y re_z im_z" of block n
EigLine(n, j, k) ==
    [mode |-> j, ion |-> k, nums |-> [c \in 1..6 |-> ((n * 10 + j) * 10 + k) * 10 + c]]

\* block n of a file with nb branches and na ions, headed
\* "q-pt= label q w"; its last frequency line is numbered 0 unless bands_ok
Block(n, label, q, w, nb, na, bands_ok) ==
    [eof |-> FALSE, label |-> label, q |-> q, w |-> w,
     band_lines |-> [j \in 1..nb |->
        IF bands_ok \/ j < nb THEN BandLine(n, j)
        ELSE [label |-> 0, freq |-> 100 * n + j, ir |-> j]],
     eig_lines |-> [m \in 1..(nb * na) |->
        EigLine(n, ((m - 1) \div na) + 1, ((m - 1) % na) + 1)]]

\* the file ends where a block is expected
EndOfFile ==
    [eof |-> TRUE, label |-> 0, q |-> Gamma, w |-> 0,
     band_lines |-> <<>>, eig_lines |-> <<>>]

BlockChoices(n, nb, na) ==
    {EndOfFile} \cup
    {Block(n, label, q, w, nb, na, ok) :
        label \in {n, n + 1}, q \in {Gamma, XPoint},
        w \in {500000, 1000000}, ok \in BOOLEAN}

\* CASTEP.py:108
QPtLineOK(b, i) == b.label = i + 1

\* CASTEP.py:117-120
BandLinesOK(b, nb) == \A j \in 1..nb : b.band_lines[j].label = j

\* CASTEP.py:143-149
EigLinesOK(b, nb, na) ==
    \A j \in 1..nb : \A k \in 1..na :
        LET l == b.eig_lines[(j - 1) * na + k]
        IN  l.mode = j /\ l.ion = k

\* CASTEP.py:152: elements[i] + 1.0j * elements[i + 1] for i in 2, 4, 6
ParseEigLine(nums) == [c \in 1..3 |-> [re |-> nums[2 * c - 1], im |-> nums[2 * c]]]

\* CASTEP.py:110-155: the values one pass of the loop binds
ReadBlock(b, nb, na) ==
    [q |-> b.q, w |-> b.w,
     freqs |-> [j \in 1..nb |-> b.band_lines[j].freq],
     ir_ints |-> [j \in 1..nb |-> b.band_lines[j].ir],
     eigenvectors |-> [j \in 1..nb |->
        [k \in 1..na |-> ParseEigLine(b.eig_lines[(j - 1) * na + k].nums)]]]

\* CASTEP.py:175-181: q and each eigenvector become arrays
Reformat(rec) ==
    [rec EXCEPT
        !.q = Arr(<<3>>, rec.q),
        !.eigenvectors = [j \in 1..Len(rec.eigenvectors) |->
            Arr(<<Len(rec.eigenvectors[j]), 3>>, rec.eigenvectors[j])]]

\* an exception leaves ReadPhonon
RpFail(e) == rp_pc' = "failed" /\ rp_err' = e

\* CASTEP.py:39-101
ReadHeader ==
    /\ rp_pc = "header"
    /\ \E h \in HeaderChoices :
        IF ~h.begin
          THEN /\ RpFail(Raise("AssertionError", 42, <<>>))
               /\ UNCHANGED <<params, q_point_data>>
        ELSE IF ~h.end
          THEN /\ RpFail(Raise("AssertionError", 97, <<>>))
               /\ params' = [num_atoms |-> h.num_atoms, num_bands |-> h.num_bands,
                             num_qpts |-> h.num_qpts]
               /\ UNCHANGED q_point_data
        ELSE /\ params' = [num_atoms |-> h.num_atoms, num_bands |-> h.num_bands,
                           num_qpts |-> h.num_qpts]
             /\ q_point_data' = List(<<>>)
             /\ rp_pc' = "q_points"
             /\ UNCHANGED rp_err
    /\ UNCHANGED <<phonon_file, qpt_i, qpt_locals, callVars, fc3Vars>>

\* CASTEP.py:103-155, one pass of the loop
ReadQPoint ==
    /\ rp_pc = "q_points"
    /\ qpt_i < params.num_qpts
    /\ \E b \in BlockChoices(qpt_i + 1, params.num_bands, params.num_atoms) :
        /\ phonon_file' = Append(phonon_file, b)
        /\ IF b.eof
             THEN /\ RpFail(Raise("StopIteration", 106, <<>>))
                  /\ UNCHANGED <<qpt_i, qpt_locals>>
           ELSE IF ~QPtLineOK(b, qpt_i)
             THEN /\ RpFail(Raise("AssertionError", 108, <<>>))
                  /\ UNCHANGED <<qpt_i, qpt_locals>>
           ELSE IF ~BandLinesOK(b, params.num_bands)
             THEN /\ RpFail(Raise("AssertionError", 120, <<>>))
                  /\ UNCHANGED <<qpt_i, qpt_locals>>
           ELSE IF ~EigLinesOK(b, params.num_bands, params.num_atoms)
             THEN /\ RpFail(Raise("AssertionError", 149, <<>>))
                  /\ UNCHANGED <<qpt_i, qpt_locals>>
           ELSE /\ qpt_locals' = <<ReadBlock(b, params.num_bands, params.num_atoms)>>
                /\ qpt_i' = qpt_i + 1
                /\ UNCHANGED <<rp_pc, rp_err>>
    /\ UNCHANGED <<params, q_point_data, callVars, fc3Vars>>

\* CASTEP.py:157-159, after the loop
AppendRecord ==
    /\ rp_pc = "q_points"
    /\ qpt_i = params.num_qpts
    /\ IF qpt_locals = <<>>
         THEN /\ RpFail(Raise("UnboundLocalError", 158, <<"q">>))
              /\ UNCHANGED q_point_data
         ELSE /\ q_point_data' = List(Append(q_point_data.items, qpt_locals[1]))
              /\ rp_pc' = "reformat"
              /\ UNCHANGED rp_err
    /\ UNCHANGED <<phonon_file, params, qpt_i, qpt_locals, callVars, fc3Vars>>

\* CASTEP.py:161-185
ReformatAndReturn ==
    /\ rp_pc = "reformat"
    /\ q_point_data' = List([i \in 1..Len(q_point_data.items) |->
                                Reformat(q_point_data.items[i])])
    /\ rp_pc' = "returned"
    /\ UNCHANGED <<rp_err, phonon_file, params, qpt_i, qpt_locals, callVars, fc3Vars>>

NextReadPhonon ==
    \/ ReadHeader
    \/ ReadQPoint
    \/ AppendRecord
    \/ ReformatAndReturn

SpecReadPhonon == Init /\ [][NextReadPhonon]_vars

-----------------------------------------------------------------------------
(* C16 *)

\* rec holds what block b of a file with nb branches and na ions gives
RecordOfBlock(rec, b, nb, na) ==
    /\ rec.q = Arr(<<3>>, b.q) /\ rec.w = b.w
    /\ Len(rec.freqs) = nb /\ Len(rec.ir_ints) = nb
    /\ \A j \in 1..nb :
        rec.freqs[j] = b.band_lines[j].freq /\ rec.ir_ints[j] = b.band_lines[j].ir
    /\ Len(rec.eigenvectors) = nb
    /\ \A j \in 1..nb :
        /\ rec.eigenvectors[j].shape = <<na, 3>>
        /\ \A k \in 1..na : \A c \in 1..3 :
            LET nums == b.eig_lines[(j - 1) * na + k].nums
            IN  rec.eigenvectors[j].data[k][c] =
                    [re |-> nums[2 * c - 1], im |-> nums[2 * c]]

\* C16: when ReadPhonon returns, q_point_data is a list of num_qpts
\* records, record n holding the wavevector, weight, num_bands frequencies
\* and intensities and num_bands eigenvectors of num_atoms x 3 components
\* of block n of the file.
C16_OneRecordPerBlock ==
    rp_pc = "returned" =>
        /\ ~q_point_data.none
        /\ Len(q_point_data.items) = params.num_qpts
        /\ \A n \in 1..Len(q_point_data.items) :
            RecordOfBlock(q_point_data.items[n], phonon_file[n],
                          params.num_bands, params.num_atoms)

-----------------------------------------------------------------------------
(* ReadForcesFC3, Phono3pyIO.py:41-127.  The file is drawn line by line   *)
(* as the loop reads it; the numbers on a displacement or force line are  *)
(* those of its line number, so that a parsed item names its line.        *)

\* the most lines a file holds
MaxLines == 6
\* the highest number on a "# File:" line
MaxFileNumber == 2

\* "# File: n"
HeaderLine(n) == [kind |-> "header", n |-> n, v |-> <<0, 0, 0>>]
\* "# atom disp_x disp_y disp_z" at line pos
DispLine(pos) == [kind |-> "disp", n |-> pos, v |-> <<pos, 0, 0>>]
\* "f_x f_y f_z" at line pos
ForceLine(pos) == [kind |-> "force", n |-> 0, v |-> <<0 - pos, pos, 0>>]
\* an empty line
BlankLine == [kind |-> "blank", n |-> 0, v |-> <<0, 0, 0>>]
\* a line "# ..." that is neither a "# File:" line nor four items
CommentLine == [kind |-> "comment", n |-> 0, v |-> <<0, 0, 0>>]

LineChoices(pos) ==
    {HeaderLine(n) : n \in 1..MaxFileNumber} \cup
    {DispLine(pos), ForceLine(pos), BlankLine, CommentLine}

\* Phono3pyIO.py:70 and 109, "disps is not None and force_set is not None"
BothRead(d, f) == ~d.none /\ ~f.none

\* Phono3pyIO.py:71-73 and 110-112
Capture(fs, d, f) == Append(fs, [disps |-> d.items, force_set |-> f.items])

\* Phono3pyIO.py:81
FileNumberOK(file_number, fs) == file_number = Len(fs) + 1

\* Phono3pyIO.py:88-93
AppendDisp(d, l) == List(Append(d.items, <<l.n, l.v>>))

\* Phono3pyIO.py:100-105
AppendForce(f, l) == List(Append(f.items, l.v))

\* Phono3pyIO.py:118-123
SameLengths(fs) ==
    \A i \in 2..Len(fs) : Len(fs[i].force_set) = Len(fs[1].force_set)

\* an exception leaves ReadForcesFC3
Fc3Fail(e) == fc3_pc' = "failed" /\ fc3_err' = e

\* Phono3pyIO.py:58-105, one pass of the loop
ReadLine ==
    /\ fc3_pc = "lines"
    /\ Len(fc3_lines) < MaxLines
    /\ \E l \in LineChoices(Len(fc3_lines) + 1) :
        /\ fc3_lines' = Append(fc3_lines, l)
        /\ CASE l.kind = "blank" ->
                /\ fc3_pc' = "capture"
                /\ UNCHANGED <<fc3_err, force_sets, disps, force_set>>
             [] l.kind = "header" ->
                LET fs == IF BothRead(disps, force_set)
                            THEN Capture(force_sets, disps, force_set)
                            ELSE force_sets
                IN  /\ force_sets' = fs
                    /\ disps' = IF BothRead(disps, force_set) THEN NoneList ELSE disps
                    /\ force_set' = IF BothRead(disps, force_set) THEN NoneList
                                     ELSE force_set
                    /\ IF FileNumberOK(l.n, fs)
                         THEN UNCHANGED <<fc3_pc, fc3_err>>
                         ELSE Fc3Fail(Raise("AssertionError", 81, <<>>))
             [] l.kind = "comment" ->
                /\ Fc3Fail(Raise("ValueError", 86, <<>>))
                /\ UNCHANGED <<force_sets, disps, force_set>>
             [] l.kind = "disp" ->
                /\ disps' = AppendDisp(disps, l)
                /\ UNCHANGED <<fc3_pc, fc3_err, force_sets, force_set>>
             [] l.kind = "force" ->
                /\ force_set' = AppendForce(force_set, l)
                /\ UNCHANGED <<fc3_pc, fc3_err, force_sets, disps>>
    /\ UNCHANGED <<callVars, phononVars>>

\* Phono3pyIO.py:58: the file has no more lines
EndOfLines ==
    /\ fc3_pc = "lines"
    /\ fc3_pc' = "capture"
    /\ UNCHANGED <<fc3_err, fc3_lines, force_sets, disps, force_set,
                   callVars, phononVars>>

\* Phono3pyIO.py:109-112
CaptureLast ==
    /\ fc3_pc = "capture"
    /\ force_sets' = IF BothRead(disps, force_set)
                        THEN Capture(force_sets, disps, force_set)
                        ELSE force_sets
    /\ fc3_pc' = "checks"
    /\ UNCHANGED <<fc3_err, fc3_lines, disps, force_set, callVars, phononVars>>

\* Phono3pyIO.py:116-127
SanityChecks ==
    /\ fc3_pc = "checks"
    /\ IF Len(force_sets) = 0
         THEN Fc3Fail(Raise("AssertionError", 116, <<>>))
       ELSE IF ~SameLengths(force_sets)
         THEN Fc3Fail(Raise("AssertionError", 123, <<>>))
       ELSE fc3_pc' = "returned" /\ UNCHANGED fc3_err
    /\ UNCHANGED <<fc3_lines, force_sets, disps, force_set, callVars, phononVars>>

NextReadForcesFC3 ==
    \/ ReadLine
    \/ EndOfLines
    \/ CaptureLast
    \/ SanityChecks

SpecReadForcesFC3 == Init /\ [][NextReadForcesFC3]_vars

-----------------------------------------------------------------------------
(* C19 *)

\* the line numbers of the "# File:" lines read
HeaderPositions == {p \in 1..Len(fc3_lines) : fc3_lines[p].kind = "header"}

\* the line number of the b-th "# File:" line
NthHeader(b) ==
    CHOOSE p \in HeaderPositions : Cardinality({h \in HeaderPositions : h <= p}) = b

\* the last line of block b
BlockEnd(b) ==
    IF b < Cardinality(HeaderPositions) THEN NthHeader(b + 1) - 1 ELSE Len(fc3_lines)

\* the lines of block b
BlockLines(b) == SubSeq(fc3_lines, NthHeader(b) + 1, BlockEnd(b))

IsDisp(l) == l.kind = "disp"
IsForce(l) == l.kind = "force"

\* the displacements and the forces on the lines of block b
BlockDisps(b) ==
    LET ds == SelectSeq(BlockLines(b), IsDisp)
    IN  [i \in 1..Len(ds) |-> <<ds[i].n, ds[i].v>>]
BlockForces(b) ==
    LET fs == SelectSeq(BlockLines(b), IsForce)
    IN  [i \in 1..Len(fs) |-> fs[i].v]

\* C19: when ReadForcesFC3 returns for a file that starts with a
\* "# File:" line, every entry of the list returned holds the displacement
\* lines and the force lines of one block of the file and of no other: no
\* block's lines are merged into the entry of another block.
C19_EntriesHoldOneBlockEach ==
    (fc3_pc = "returned" /\ fc3_lines[1].kind = "header") =>
        \A e \in 1..Len(force_sets) :
            \E b \in 1..Cardinality(HeaderPositions) :
                /\ force_sets[e].disps = BlockDisps(b)
                /\ force_sets[e].force_set = BlockForces(b)

====
